---- MODULE Spec2Model ----
(***************************************************************************)
(* Model of examples/custom_3d_three-d/src/main.rs: an eframe application  *)
(* (MyApp) that accumulates a rotation angle from drag input and enqueues  *)
(* a paint callback per frame, and the adapter (ThreeDApp) that the        *)
(* callback obtains through the thread-local cache of with_three_d_context *)
(* and uses to clear and draw into the host's draw target.                 *)
(*                                                                         *)
(* Abstractions.  Angles are integers in milliradians (the f32 values the  *)
(* model uses, 0.2 and multiples of 0.01 * 100 px, are represented         *)
(* exactly).  The draw target is one row of FbWidth pixels, so a viewport  *)
(* or scissor box is an interval [x, x + width), and the coordinates the    *)
(* host passes are whole pixels (f32::round leaves them as they are).      *)
(* Trigonometric entries of a matrix are kept symbolic (cos a, sin a).     *)
(***************************************************************************)
EXTENDS Integers, Sequences, FiniteSets, TLC

\* ------------------------------------------------------------------ bounds
\* Number of update frames the GUI loop processes.
MaxFrames == 2
\* Width of the (one-row) draw target in pixels.
FbWidth == 2

\* --------------------------------------------------------- program constants
\* MyApp::new: angle: 0.2 (radians), in milliradians.
AngleInit == 200
\* update: drag_delta().x * 0.01, in milliradians per pixel.
DragFactor == 10

\* ------------------------------------------------------------- environment
\* The thread that runs the GUI event loop (update) and, in eframe's glow
\* backend, the paint callbacks; a second thread stands for any other thread
\* a rendering backend may invoke the Send + Sync callback on.
MainThread == "main"
Threads == {"main", "worker"}
\* glow::Context handles the host's painter may hand out (painter.gl()).
GlHandles == {"gl_a", "gl_b"}
\* Horizontal drag deltas of one frame, in pixels.
Deltas == {-100, 0, 100}
Pixels == 0 .. (FbWidth - 1)
\* Pixel coordinates and extents handed over in PaintCallbackInfo.
Coords == 0 .. FbWidth

\* Option<T>
None == [some |-> FALSE]
Some(v) == [some |-> TRUE, val |-> v]

\* ---------------------------------------------------------- application shell
\* self.angle += response.drag_delta().x * 0.01
ApplyDragClamped(a, dx) == IF a + dx * DragFactor > 2000 THEN 2000 ELSE a + dx * DragFactor
ApplyDragSpin(a, dx) == a + dx * DragFactor + DragFactor
ApplyDrag(a, dx) == a + dx * DragFactor

\* let angle = self.angle;  (taken after the += of the same frame)
CallbackAngleStale(a, dx) == a
CallbackAngle(a, dx) == ApplyDrag(a, dx)

\* egui::PaintCallback { rect, callback: Arc::new(CallbackFn::new(move |info, painter| ..)) }
\* frame and shell_angle are ghost tags: the update frame that built the
\* callback and MyApp.angle at the end of that frame.
PaintCallback(a, n, shell) == [angle |-> a, frame |-> n, shell_angle |-> shell]

\* ----------------------------------------------------------- renderer adapter
\* Context::from_gl_context(gl): Result<Context, _>
FromGlContext(gl, ok) ==
    IF ok THEN [ok |-> TRUE, context |-> [gl |-> gl]]
          ELSE [ok |-> FALSE, context |-> [gl |-> "invalid"]]

\* .unwrap() panics on Err
UnwrapNeverPanics(result) == FALSE
UnwrapPanics(result) == ~result.ok

\* ThreeDApp::new(gl) = Self { context }.  owner and serial are ghost fields
\* giving the instance its identity: the constructing thread and the number
\* of the construction on that thread.
ThreeDApp(context, t, n) == [context |-> context, owner |-> t, serial |-> n]
NoAdapter == [context |-> [gl |-> "none"], owner |-> "none", serial |-> 0]

\* thread_local! THREE_D: the slot an invocation on thread t accesses.
SharedSlot(t) == MainThread
Slot(t) == t

\* Option::get_or_insert_with: the closure runs iff the slot is None ...
NeedsInitAlways(slot) == TRUE
NeedsInit(slot) == ~slot.some
\* ... and the slot afterwards holds the old value if there was one.
InsertAlways(slot, fresh) == Some(fresh)
GetOrInsertWith(slot, fresh) == IF slot.some THEN slot ELSE Some(fresh)

\* f32::round followed by `as _`, on a non-negative whole number of pixels.
RoundPx(x) == x

\* Viewport { x: left_px.round() as _, width: width_px.round() as _, .. }
ViewportOf(px) == [x |-> RoundPx(px.left_px), width |-> RoundPx(px.width_px)]
\* ScissorBox { x: left_px.round() as _, width: width_px.round() as _, .. }
ScissorBoxOf(px) == [x |-> RoundPx(px.left_px), width |-> RoundPx(px.width_px)]
InBox(p, box) == box.x <= p /\ p < box.x + box.width

\* painter.intermediate_fbo().map(from_framebuffer).unwrap_or(RenderTarget::screen(..))
\* (the screen target built for unwrap_or is dropped unused when an
\* intermediate framebuffer exists; building it issues no GL call).
NoTarget == [kind |-> "none", id |-> "none"]
ResolveTargetScreenOnly(fbo) == [kind |-> "screen", id |-> "default"]
ResolveTarget(fbo) ==
    IF fbo.some THEN [kind |-> "framebuffer", id |-> fbo.val]
                ELSE [kind |-> "screen", id |-> "default"]

\* ClearState::depth(1.0): no colour channel, depth 1.0.
\* ClearState::color_and_depth(..) would also name the colour channels.
ClearStateColorAndDepth == [color |-> Some("0,0,0,1"), depth |-> Some("1.0")]
ClearStateDepth == [color |-> None, depth |-> Some("1.0")]
\* The clear state render passes to clear_partially.
RenderClearState == ClearStateDepth

\* RenderTarget::clear_partially(scissor_box, clear_state): inside the box,
\* every channel the clear state names is set to its clear value.
ClearPartially(fb, box, cs) ==
    [p \in Pixels |->
        IF InBox(p, box)
        THEN [color |-> IF cs.color.some THEN "cleared" ELSE fb[p].color,
              depth |-> IF cs.depth.some THEN "cleared" ELSE fb[p].depth]
        ELSE fb[p]]

\* RenderTarget::render_partially(scissor_box, camera, objects, lights):
\* of the pixels the rasterised triangle covers, those inside the camera's
\* viewport and inside the scissor box receive its colour and depth.
RenderPartially(fb, box, viewport, cover) ==
    [p \in Pixels |->
        IF p \in cover /\ InBox(p, box) /\ InBox(p, viewport)
        THEN [color |-> "triangle", depth |-> "triangle"]
        ELSE fb[p]]

\* Symbolic matrix entries.
Const(c) == [fn |-> "const", arg |-> c]
Cos(a) == [fn |-> "cos", arg |-> a]
Sin(a) == [fn |-> "sin", arg |-> a]
NegSin(a) == [fn |-> "-sin", arg |-> a]
\* Mat4 as four columns.
Identity ==
    << <<Const(1), Const(0), Const(0), Const(0)>>,
       <<Const(0), Const(1), Const(0), Const(0)>>,
       <<Const(0), Const(0), Const(1), Const(0)>>,
       <<Const(0), Const(0), Const(0), Const(1)>> >>
\* Mat4::from_angle_x / from_angle_y (cgmath, column major).
FromAngleX(a) ==
    << <<Const(1), Const(0), Const(0), Const(0)>>,
       <<Const(0), Cos(a), Sin(a), Const(0)>>,
       <<Const(0), NegSin(a), Cos(a), Const(0)>>,
       <<Const(0), Const(0), Const(0), Const(1)>> >>
FromAngleY(a) ==
    << <<Cos(a), Const(0), NegSin(a), Const(0)>>,
       <<Const(0), Const(1), Const(0), Const(0)>>,
       <<Sin(a), Const(0), Cos(a), Const(0)>>,
       <<Const(0), Const(0), Const(0), Const(1)>> >>

\* Gm::new(Mesh::new(..), ColorMaterial::default()): a new model, identity transformation.
GmNew == [material |-> "ColorMaterial", transformation |-> Identity]
\* model.set_transformation(m) replaces the transformation.
SetTransformation(model, m) == [model EXCEPT !.transformation = m]

\* ThreeDApp::render: the model it draws, the two calls it issues on the
\* render target, and the target's pixels after each.
Render(self, screen, viewport, scissor_box, angle, fb, cover) ==
    LET model == SetTransformation(GmNew, FromAngleY(angle))
        cleared == ClearPartially(fb, scissor_box, RenderClearState)
        drawn == RenderPartially(cleared, scissor_box, viewport, cover)
    IN [ops |-> << [op |-> "clear", context |-> self.context, target |-> screen],
                   [op |-> "draw", context |-> self.context, target |-> screen] >>,
        transformation |-> model.transformation,
        fb_cleared |-> cleared,
        fb |-> drawn]

\* ThreeDApp::custom_painting: disable sRGB conversion, resolve the draw
\* target, render, and hand the target's framebuffer back.
CustomPainting(self, info, fbo, angle, fb, cover) ==
    LET screen == ResolveTarget(fbo)
        viewport == ViewportOf(info.viewport)
        scissor_box == ScissorBoxOf(info.clip_rect)
        r == Render(self, screen, viewport, scissor_box, angle, fb, cover)
    IN [ops |-> << [op |-> "disable", context |-> self.context, target |-> NoTarget] >>
                \o << [op |-> "resolve", context |-> self.context, target |-> screen] >>
                \o r.ops
                \o << [op |-> "into_framebuffer", context |-> self.context,
                        target |-> screen] >>,
        target |-> screen,
        scissor_box |-> scissor_box,
        transformation |-> r.transformation,
        fb_cleared |-> r.fb_cleared,
        fb |-> r.fb]

\* ------------------------------------------------------------------- state
VARIABLES
    angle,            \* MyApp.angle (milliradians)
    queue,            \* paint callbacks added to the painter, not yet invoked
    THREE_D,          \* per thread: the thread_local Option<ThreeDApp>
    pc,               \* per thread: "idle", "entered" (inside with_three_d_context,
                      \*   before f runs) or "panicked"
    inv,              \* per thread: the running callback, its gl handle, the adapter f gets
    alive,            \* the process is running
    intermediate_fbo, \* painter.intermediate_fbo(): Option<framebuffer>
    frames,           \* ghost: number of update frames processed
    dragSum,          \* ghost: sum of their horizontal drag deltas (pixels)
    newCount,         \* ghost: per thread, number of ThreeDApp::new executions
    firstGl,          \* ghost: per thread, the handle of its first invocation
    ctorFailed,       \* ghost: per thread, from_gl_context returned Err
    ran,              \* ghost: per thread, the closure f has run
    lastPaint         \* ghost: the custom_painting call that has just returned, if
                      \*   the last step was one

vars == <<angle, queue, THREE_D, pc, inv, alive, intermediate_fbo,
          frames, dragSum, newCount, firstGl, ctorFailed, ran, lastPaint>>

\* No custom_painting call has just returned.
NoPaint == [valid |-> FALSE]
\* What the host has drawn into the draw target before the callback runs.
HostFb == [p \in Pixels |-> [color |-> "host", depth |-> "host"]]
NoInv == [cb |-> PaintCallback(0, 0, 0), gl |-> "none", three_d |-> NoAdapter]
\* PaintCallbackInfo: the viewport is the callback's rect, of fixed size
\* (allocate_exact_size); the clip rectangle is any interval of the target.
Infos ==
    [viewport : [left_px : {0}, width_px : {FbWidth}],
     clip_rect : {c \in [left_px : Coords, width_px : Coords] :
                    c.left_px + c.width_px <= FbWidth}]
\* What the rasterised triangle covers, at the two extremes: seen edge-on it
\* covers no pixel, close up it covers every pixel of the target.
Covers == {{}, Pixels}

\* eframe::run_native(.., |cc| MyApp::new(cc)): Self { angle: 0.2 }
Init ==
    /\ angle = AngleInit
    /\ queue = << >>
    /\ THREE_D = [t \in Threads |-> None]
    /\ pc = [t \in Threads |-> "idle"]
    /\ inv = [t \in Threads |-> NoInv]
    /\ alive = TRUE
    /\ intermediate_fbo \in {None, Some("fbo")}
    /\ frames = 0
    /\ dragSum = 0
    /\ newCount = [t \in Threads |-> 0]
    /\ firstGl = [t \in Threads |-> None]
    /\ ctorFailed = [t \in Threads |-> FALSE]
    /\ ran = [t \in Threads |-> FALSE]
    /\ lastPaint = NoPaint

\* MyApp::update, one frame on the GUI thread with horizontal drag delta dx.
update ==
    /\ alive
    /\ pc[MainThread] = "idle"
    /\ frames < MaxFrames
    /\ \E dx \in Deltas :
        /\ angle' = ApplyDrag(angle, dx)
        /\ queue' = Append(queue, PaintCallback(CallbackAngle(angle, dx), frames + 1, angle'))
        /\ dragSum' = dragSum + dx
    /\ frames' = frames + 1
    /\ lastPaint' = NoPaint
    /\ UNCHANGED <<THREE_D, pc, inv, alive, intermediate_fbo,
                   newCount, firstGl, ctorFailed, ran>>

\* The host invokes the oldest callback on thread t with painter.gl() = gl:
\* with_three_d_context up to the call of f.  A failed construction panics
\* in unwrap: the slot stays None and the thread unwinds; the process ends
\* with it when it is the main thread or the build aborts on panic.  The
\* RefCell borrow is held from here to the return of f; f does not call
\* with_three_d_context again, so borrow_mut never finds it taken.
with_three_d_context(t) ==
    /\ alive
    /\ pc[t] = "idle"
    /\ queue # << >>
    /\ \E gl \in GlHandles :
       \E ok \in IF NeedsInit(THREE_D[Slot(t)]) THEN BOOLEAN ELSE {TRUE} :
        LET cb == Head(queue)
            s == Slot(t)
            slot == THREE_D[s]
            init == NeedsInit(slot)
            result == FromGlContext(gl, ok)
            fresh == ThreeDApp(result.context, t, newCount[t] + 1)
        IN /\ queue' = Tail(queue)
           /\ firstGl' = [firstGl EXCEPT ![t] = IF @.some THEN @ ELSE Some(gl)]
           /\ newCount' = [newCount EXCEPT ![t] = IF init THEN @ + 1 ELSE @]
           /\ ctorFailed' = [ctorFailed EXCEPT ![t] = @ \/ (init /\ ~result.ok)]
           /\ IF init /\ UnwrapPanics(result)
              THEN /\ pc' = [pc EXCEPT ![t] = "panicked"]
                   /\ \E abort \in BOOLEAN : alive' = (~abort /\ t # MainThread)
                   /\ UNCHANGED <<THREE_D, inv>>
              ELSE /\ THREE_D' = [THREE_D EXCEPT ![s] = GetOrInsertWith(slot, fresh)]
                   /\ pc' = [pc EXCEPT ![t] = "entered"]
                   /\ inv' = [inv EXCEPT ![t] =
                                [cb |-> cb, gl |-> gl, three_d |-> THREE_D'[s].val]]
                   /\ UNCHANGED alive
    /\ lastPaint' = NoPaint
    /\ UNCHANGED <<angle, intermediate_fbo, frames, dragSum, ran>>

\* f(three_d): three_d.custom_painting(info, painter, angle) with the angle
\* the closure captured, then the return of with_three_d_context.  info is
\* first read here; cover is the set of pixels the triangle rasterises to.
\* The draw target holds what the host has drawn (HostFb) when f starts.
custom_painting(t) ==
    /\ alive
    /\ pc[t] = "entered"
    /\ \E info \in Infos, cover \in Covers :
        LET r == CustomPainting(inv[t].three_d, info, intermediate_fbo,
                                inv[t].cb.angle, HostFb, cover)
        IN lastPaint' = [valid |-> TRUE, thread |-> t, three_d |-> inv[t].three_d,
                         gl |-> inv[t].gl, cb |-> inv[t].cb, angle |-> inv[t].cb.angle,
                         ops |-> r.ops, target |-> r.target,
                         scissor_box |-> r.scissor_box,
                         transformation |-> r.transformation,
                         fb_cleared |-> r.fb_cleared, fb |-> r.fb]
    /\ pc' = [pc EXCEPT ![t] = "idle"]
    /\ inv' = [inv EXCEPT ![t] = NoInv]
    /\ ran' = [ran EXCEPT ![t] = TRUE]
    /\ UNCHANGED <<angle, queue, THREE_D, alive, intermediate_fbo,
                   frames, dragSum, newCount, firstGl, ctorFailed>>

Next ==
    \/ update
    \/ \E t \in Threads : with_three_d_context(t)
    \/ \E t \in Threads : custom_painting(t)

Spec == Init /\ [][Next]_vars

\* ------------------------------------------------------------------ claims

\* C1: ThreeDApp::new is executed at most once per thread: the first
\* invocation of with_three_d_context on a thread constructs and caches the
\* adapter, and every later invocation on that thread hands the identical
\* cached instance (the thread's first construction) to its closure.
C1_ConstructedOncePerThread ==
    \A t \in Threads :
        /\ newCount[t] <= 1
        /\ THREE_D[t].some =>
              /\ newCount[t] = 1
              /\ THREE_D[t].val.serial = 1
        /\ pc[t] = "entered" =>
              /\ THREE_D[t].some
              /\ inv[t].three_d = THREE_D[t].val
\* A later invocation on a thread whose closure has run before.
C1_Witness ==
    \E t \in Threads : pc[t] = "entered" /\ ran[t] /\ newCount[t] = 1

\* C2: adapters are thread-confined: a thread's slot only ever holds an
\* adapter that thread constructed, the closure running on a thread gets that
\* thread's own adapter, every painting is done by the thread that built the
\* adapter it uses, and two threads never hold the same instance.
C2_ThreadConfined ==
    /\ \A t \in Threads :
        /\ THREE_D[t].some => THREE_D[t].val.owner = t
        /\ pc[t] = "entered" => inv[t].three_d.owner = t
    /\ lastPaint.valid => lastPaint.three_d.owner = lastPaint.thread
    /\ \A t, u \in Threads :
        (t # u /\ THREE_D[t].some /\ THREE_D[u].some) => THREE_D[t].val # THREE_D[u].val
\* Two callbacks in flight at once on different threads, each with an adapter.
C2_Witness ==
    \A t \in Threads : pc[t] = "entered" /\ THREE_D[t].some

\* C3 (as stated): the accumulated angle equals the sum of delta.x * 0.01
\* over all processed frames.
C3_AngleIsSumOfDeltas == angle = DragFactor * dragSum
\* C3 (amended): the accumulated angle equals the initial angle 0.2 set by
\* MyApp::new plus the sum of delta.x * 0.01 over all processed frames, with
\* no clamping; two frames of 100 px each give 2.2.
C3_AngleIsInitPlusSumOfDeltas == angle = AngleInit + DragFactor * dragSum
\* Two frames of 100 px each.
C3_Witness == frames = 2 /\ dragSum = 200 /\ angle = 2200

\* C4: each update frame enqueues exactly one paint callback, carrying the
\* angle as it was after that frame's drag delta was applied; custom_painting
\* receives that value whenever the callback is invoked, whatever the
\* shell's angle has become.
C4_CallbackCarriesSnapshot ==
    [][/\ frames' # frames =>
            /\ queue' = Append(queue, [angle |-> angle', frame |-> frames',
                                       shell_angle |-> angle'])
       /\ frames' = frames => Len(queue') <= Len(queue)
       /\ \A t \in Threads :
            pc'[t] = "entered" => inv'[t].cb.angle = inv'[t].cb.shell_angle
       /\ lastPaint'.valid => lastPaint'.angle = lastPaint'.cb.shell_angle]_vars
\* A callback painted after a later frame has changed the shell's angle.
C4_Witness ==
    /\ lastPaint.valid
    /\ lastPaint.cb.frame < frames
    /\ lastPaint.angle # angle

\* C5: the transformation set on the model in a render call is the rotation
\* about the Y axis by the angle passed to that call and nothing else: it is
\* a function of that angle alone, whatever was rendered before.
C5_TransformIsRotationY ==
    lastPaint.valid =>
        LET m == lastPaint.transformation
            a == lastPaint.angle
        IN /\ m[1] = <<Cos(a), Const(0), NegSin(a), Const(0)>>
           /\ m[2] = <<Const(0), Const(1), Const(0), Const(0)>>
           /\ m[3] = <<Sin(a), Const(0), Cos(a), Const(0)>>
           /\ m[4] = <<Const(0), Const(0), Const(0), Const(1)>>
\* A render on a thread that has rendered before, with a changed angle.
C5_Witness ==
    /\ lastPaint.valid
    /\ lastPaint.cb.frame >= 2
    /\ lastPaint.angle # AngleInit
    /\ newCount[lastPaint.thread] = 1
    /\ \A t \in Threads : t # lastPaint.thread => newCount[t] = 0

C7_AngleChangesOnlyByDrag ==
    [][angle' # angle => (frames' = frames + 1 /\ dragSum' # dragSum)]_vars
\* A frame with zero drag delta has been processed and painted.
C7_Witness ==
    /\ frames = 1
    /\ dragSum = 0
    /\ angle = AngleInit
    /\ lastPaint.valid

\* C8: custom_painting renders into the host's intermediate framebuffer when
\* there is one and into the default screen buffer otherwise, and it issues,
\* in this order, resolve, clear, draw and the single return of the target;
\* clear and draw act on the resolved target.
C8_TargetResolvedUsedReturned ==
    lastPaint.valid =>
        LET ops == lastPaint.ops
            expected == IF intermediate_fbo.some
                        THEN [kind |-> "framebuffer", id |-> intermediate_fbo.val]
                        ELSE [kind |-> "screen", id |-> "default"]
        IN /\ Len(ops) = 5
           /\ ops[1].op = "disable"
           /\ ops[2].op = "resolve"
           /\ ops[3].op = "clear"
           /\ ops[4].op = "draw"
           /\ ops[5].op = "into_framebuffer"
           /\ \A i \in 2 .. 5 : ops[i].target = expected
\* A painting with an intermediate framebuffer supplied by the host.
C8_Witness == lastPaint.valid /\ intermediate_fbo.some

C10_FirstHandleKept ==
    /\ \A t \in Threads :
        /\ THREE_D[t].some =>
              /\ firstGl[t].some
              /\ THREE_D[t].val.context.gl = firstGl[t].val
        /\ pc[t] = "entered" => inv[t].three_d.context.gl = firstGl[t].val
    /\ lastPaint.valid =>
        \A i \in 1 .. Len(lastPaint.ops) :
            lastPaint.ops[i].context.gl = firstGl[lastPaint.thread].val
\* A later invocation that supplied another handle than the first.
C10_Witness ==
    /\ lastPaint.valid
    /\ lastPaint.gl # firstGl[lastPaint.thread].val

====
